---- MODULE Spec2Model ----
(***************************************************************************)
(* The CourtListener crawler of src/data_collection.py and                 *)
(* src/caselistener/clean_data.py: CourtListenerScraper.get_dockets (the   *)
(* paginated docket listing) and CourtListenerScraper.scrape_cases (the    *)
(* docket -> cluster -> opinion traversal that assembles one record per    *)
(* opinion).  The two files hold two variants of the same class; the       *)
(* variable "module" says which one runs.                                  *)
(*                                                                         *)
(* The remote API is part of the state: it is chosen in Init and never     *)
(* changes, so the same request always gets the same response.             *)
(***************************************************************************)
EXTENDS Integers, Sequences, FiniteSets, TLC

VARIABLES
    module,       \* "data_collection" | "clean_data": which file's class runs
    api_token,    \* CourtListenerScraper's api_token argument
    limit,        \* scrape_cases' limit argument; NoLimit models None
    court_id,     \* scrape_cases' court_id argument; "" models None
    pages,        \* API: the docket listing, a sequence of pages
    failPage,     \* API: the page whose request fails (0: none)
    docket,       \* API: docket id -> docket object
    cluster,      \* API: cluster id -> response of /clusters/{id}/
    opinion,      \* API: opinion id -> response of /opinions/{id}/
    pc,           \* position of the control flow
    url,          \* get_dockets: the next page to request (0 models None)
    params,       \* get_dockets: the query parameters of the next request
    dockets,      \* get_dockets' accumulator, then scrape_cases' docket list
    idx,          \* scrape_cases: index of the current docket
    cluster_urls, \* scrape_cases: the current docket's cluster references
    ci,           \* scrape_cases: index of the current cluster reference
    cur_cluster,  \* scrape_cases: the cluster fetched last
    opinion_urls, \* scrape_cases: the current cluster's opinion references
    oi,           \* scrape_cases: index of the current opinion reference
    cases_data,   \* scrape_cases: the output records
    files,        \* clean_data: opinion ids whose text file was written
    origin,       \* history: for each record, the loop position it was built at
    log,          \* the outbound GETs and the sleeps, in order
    run,          \* 1 in the first run of scrape_cases, 2 in the second
    prev_cases    \* what the first run returned

vars == <<module, api_token, limit, court_id, pages, failPage, docket, cluster, opinion,
          pc, url, params, dockets, idx, cluster_urls, ci, cur_cluster,
          opinion_urls, oi, cases_data, files, origin, log, run, prev_cases>>

apiVars == <<module, api_token, limit, court_id, pages, failPage, docket, cluster, opinion>>

-----------------------------------------------------------------------------
(* Bounds of the model. *)

\* longest reference list (a page's results, a docket's clusters, a cluster's
\* sub_opinions)
MaxRefs == 2
\* most references in the whole API of a traversal scenario
MaxEdges == 5
\* most resources of a traversal scenario that are not a plain, complete one
MaxFaults == 1
\* most pages of the docket listing
MaxPages == 2
\* largest docket cap
MaxLimit == 3
\* most page requests of one get_dockets call (a cursor may point backwards)
MaxPageRequests == 3

Modules == {"data_collection", "clean_data"}
DocketIds == {1, 2}
ClusterIds == {"1", "2"}
OpinionIds == {"1", "2"}
CourtIds == {"scotus"}
\* the API tokens: the empty one is invalid, the API answers it with 401
ApiTokens == {"", "token"}
InvalidTokens == {""}
NoLimit == -1

-----------------------------------------------------------------------------
(* Python values.  A JSON field is absent, null, a string (a sequence of   *)
(* characters) or a list; "s" holds the characters or the elements.        *)

Absent == [tag |-> "absent", s |-> <<>>]
Null == [tag |-> "null", s |-> <<>>]
Str(s) == [tag |-> "str", s |-> s]
List(s) == [tag |-> "list", s |-> s]

\* dict.get(key, default)
Get(v, default) == IF v.tag = "absent" THEN default ELSE v

\* dict.get(key): None when the key is absent
GetOrNone(v) == IF v.tag = "absent" THEN Null ELSE v

\* Python truthiness of a field value: None, "" and [] are falsy
Truthy(v) == v.tag \in {"str", "list"} /\ Len(v.s) > 0

Whitespace == {" "}

RECURSIVE LStrip(_)
LStrip(s) == IF Len(s) > 0 /\ Head(s) \in Whitespace THEN LStrip(Tail(s)) ELSE s

RECURSIVE RStrip(_)
RStrip(s) ==
    IF Len(s) > 0 /\ s[Len(s)] \in Whitespace
    THEN RStrip(SubSeq(s, 1, Len(s) - 1))
    ELSE s

\* str.strip()
Strip(s) == LStrip(RStrip(s))

\* s[:n] for n >= 0
Take(s, n) == SubSeq(s, 1, IF n < Len(s) THEN n ELSE Len(s))

RefLists(S, n) == UNION {[1..k -> S] : k \in 0..n}

-----------------------------------------------------------------------------
(* References.  A reference is a URL, modelled as its segments between     *)
(* slashes; a trailing slash leaves an empty last segment.                 *)

ClusterUrl(id) == <<"clusters", id, "">>
OpinionUrl(id) == <<"opinions", id, "">>

\* url.rstrip('/') on the segments: drop the empty segments at the end
RECURSIVE RStripSlash(_)
RStripSlash(u) ==
    IF Len(u) > 0 /\ u[Len(u)] = ""
    THEN RStripSlash(SubSeq(u, 1, Len(u) - 1))
    ELSE u

\* url.rstrip('/').split('/')[-1]
extract_id_from_url(u) ==
    LET s == RStripSlash(u) IN IF Len(s) = 0 THEN "" ELSE s[Len(s)]

-----------------------------------------------------------------------------
(* The remote API. *)

\* a docket object as the listing returns it
DocketObject(d, clusters) == [id |-> d, clusters |-> clusters]

\* the resource /clusters/{id}/ and how its request ends: http is "ok", "error"
\* (a transport failure or a non-2xx status: the client sees no field of it)
\* or "empty" (a 2xx response whose body is {})
ClusterResponse(http, c, subs, judges) ==
    [http |-> http, id |-> c, sub_opinions |-> subs, judges |-> judges]

OpinionResponse(http, o, type, author, text, cited) ==
    [http |-> http, id |-> o, type |-> type, author_str |-> author,
     plain_text |-> text, opinions_cited |-> cited]

PlainCluster(c, subs) == ClusterResponse("ok", c, List(subs), Str(<<"j">>))
PlainOpinion(o) ==
    OpinionResponse("ok", o, Str(<<"t">>), Str(<<"a">>), Str(<<"x">>), List(<<>>))

ClusterRefLists == {[i \in DOMAIN r |-> ClusterUrl(r[i])] : r \in RefLists(ClusterIds, MaxRefs)}
OpinionRefLists == {[i \in DOMAIN r |-> OpinionUrl(r[i])] : r \in RefLists(OpinionIds, MaxRefs)}

DocketChoices(d) ==
    {DocketObject(d, List(r)) : r \in ClusterRefLists}
        \cup {DocketObject(d, Null), DocketObject(d, Absent)}

ClusterChoices(c) ==
    {PlainCluster(c, r) : r \in OpinionRefLists}
        \cup {ClusterResponse("error", c, List(r), Str(<<"j">>)) : r \in OpinionRefLists}
        \cup {ClusterResponse("empty", c, Absent, Absent),
              ClusterResponse("ok", c, Null, Str(<<"j">>)),
              ClusterResponse("ok", c, List(<<>>), Absent)}

OpinionChoices(o) ==
    {PlainOpinion(o),
     OpinionResponse("error", o, Str(<<"t">>), Str(<<"a">>), Str(<<"x">>), List(<<>>)),
     OpinionResponse("ok", o, Absent, Str(<<"a">>), Str(<<"x">>), List(<<>>)),
     OpinionResponse("ok", o, Str(<<"t">>), Absent, Str(<<"x">>), List(<<>>)),
     OpinionResponse("ok", o, Str(<<"t">>), Null, Str(<<"x">>), List(<<>>)),
     OpinionResponse("ok", o, Str(<<"t">>), Str(<<"a">>), Null, List(<<>>)),
     OpinionResponse("ok", o, Str(<<"t">>), Str(<<"a">>), Str(<<>>), List(<<>>)),
     OpinionResponse("ok", o, Str(<<"t">>), Str(<<"a">>), Str(<<" ">>), List(<<>>)),
     OpinionResponse("ok", o, Str(<<"t">>), Str(<<"a">>), Str(<<"x">>), Null)}

\* the ids a reference list names
RefIds(v) == {extract_id_from_url(v.s[i]) : i \in DOMAIN v.s}

ListedDockets(pp) == UNION {{pp[k].results[i] : i \in DOMAIN pp[k].results} : k \in DOMAIN pp}
ListedClusters(pp, dd) == UNION {RefIds(dd[d].clusters) : d \in ListedDockets(pp)}
ListedOpinions(pp, dd, cc) ==
    UNION {RefIds(cc[c].sub_opinions) : c \in {x \in ListedClusters(pp, dd) : cc[x].http = "ok"}}

\* the number of references of the API
RECURSIVE SumLen(_, _)
SumLen(f, S) ==
    IF S = {} THEN 0
    ELSE LET x == CHOOSE y \in S : TRUE IN Len(f[x]) + SumLen(f, S \ {x})

Edges(pp, dd, cc) ==
    SumLen([k \in DOMAIN pp |-> pp[k].results], DOMAIN pp)
        + SumLen([d \in DocketIds |-> dd[d].clusters.s], DocketIds)
        + SumLen([c \in ClusterIds |-> cc[c].sub_opinions.s], ClusterIds)

\* the resources that are not a plain, complete one
FaultyDockets(dd) == {d \in DocketIds : dd[d].clusters.tag # "list"}
FaultyClusters(cc) == {c \in ClusterIds : cc[c] # PlainCluster(c, cc[c].sub_opinions.s)}
FaultyOpinions(oo) == {o \in OpinionIds : oo[o] # PlainOpinion(o)}
Faults(dd, cc, oo) ==
    Cardinality(FaultyDockets(dd)) + Cardinality(FaultyClusters(cc))
        + Cardinality(FaultyOpinions(oo))

\* what no request of the run can reach is left plain and empty
Canonical(pp, dd, cc, oo) ==
    /\ \A d \in DocketIds \ ListedDockets(pp) : dd[d] = DocketObject(d, List(<<>>))
    /\ \A c \in ClusterIds \ ListedClusters(pp, dd) : cc[c] = PlainCluster(c, <<>>)
    /\ \A o \in OpinionIds \ ListedOpinions(pp, dd, cc) : oo[o] = PlainOpinion(o)

Page(results, next) == [results |-> results, next |-> next]

TypeOK ==
    /\ module \in Modules
    /\ limit \in {NoLimit} \cup 0..MaxLimit
    /\ pc \in {"init", "get_dockets", "dockets_for", "clusters_for", "opinions_for",
               "done", "crashed", "cancelled"}

\* the state after CourtListenerScraper(api_token), before scrape_cases is called
InitRun ==
    /\ pc = "init"
    /\ url = 0
    /\ params = ""
    /\ dockets = <<>>
    /\ idx = 0
    /\ cluster_urls = List(<<>>)
    /\ ci = 0
    /\ cur_cluster = PlainCluster("1", <<>>)
    /\ opinion_urls = List(<<>>)
    /\ oi = 0
    /\ cases_data = <<>>
    /\ files = {}
    /\ origin = <<>>
    /\ log = <<>>
    /\ run = 1
    /\ prev_cases = [pc |-> "init", cases |-> <<>>, log |-> <<>>]

\* a reference list is empty or starts with a reference to id
StartsWith(v, id) ==
    IF Len(v.s) = 0 THEN TRUE ELSE extract_id_from_url(v.s[1]) = id

\* traversal scenarios: a one-page listing, no cap, any small tree of
\* references, at most MaxFaults resources that fail or lack a field.  Ids are
\* names only: the docket listed first is docket 1, the cluster it refers to
\* first is cluster "1", the opinion that cluster refers to first is opinion "1"
InitTree ==
    /\ module \in Modules
    /\ api_token \in ApiTokens \ InvalidTokens
    /\ limit = NoLimit
    /\ court_id \in CourtIds
    /\ failPage = 0
    /\ \E r \in {x \in RefLists(DocketIds, MaxRefs) \ {<<>>} : x[1] = 1} :
       LET pp == <<Page(r, 0)>>
           DChoice(d) == IF d \in ListedDockets(pp) THEN DocketChoices(d)
                         ELSE {DocketObject(d, List(<<>>))}
       IN
       \E d1 \in DChoice(1) :
       /\ Len(r) + Len(d1.clusters.s) <= MaxEdges
       /\ StartsWith(d1.clusters, "1")
       /\ \E d2 \in DChoice(2) :
          LET dd == [d \in DocketIds |-> IF d = 1 THEN d1 ELSE d2]
              CChoice(c) == IF c \in ListedClusters(pp, dd) THEN ClusterChoices(c)
                            ELSE {PlainCluster(c, <<>>)}
              used == Len(r) + Len(d1.clusters.s) + Len(d2.clusters.s)
          IN
          /\ used <= MaxEdges
          /\ Cardinality(FaultyDockets(dd)) <= MaxFaults
          /\ \E c1 \in CChoice("1") :
             /\ used + Len(c1.sub_opinions.s) <= MaxEdges
             /\ StartsWith(c1.sub_opinions, "1")
             /\ \E c2 \in CChoice("2") :
                LET cc == [c \in ClusterIds |-> IF c = "1" THEN c1 ELSE c2]
                    OChoice(o) == IF o \in ListedOpinions(pp, dd, cc) THEN OpinionChoices(o)
                                  ELSE {PlainOpinion(o)}
                IN
                /\ Edges(pp, dd, cc) <= MaxEdges
                /\ Cardinality(FaultyDockets(dd)) + Cardinality(FaultyClusters(cc)) <= MaxFaults
                /\ \E o1 \in OChoice("1"), o2 \in OChoice("2") :
                      LET oo == [o \in OpinionIds |-> IF o = "1" THEN o1 ELSE o2]
                      IN  /\ Faults(dd, cc, oo) <= MaxFaults
                          /\ Canonical(pp, dd, cc, oo)
                          /\ pages = pp
                          /\ docket = dd
                          /\ cluster = cc
                          /\ opinion = oo
    /\ InitRun

\* the lists over S without repetition, in ascending order of first use
AscendingLists(S, n) ==
    {r \in RefLists(S, n) : \A i, j \in DOMAIN r : i < j => r[i] < r[j]}

\* pagination scenarios: any small listing, any cursor (also one that points
\* backwards), any cap, one page that may fail; a fixed plain tree
InitPaging ==
    /\ module \in Modules
    /\ api_token \in ApiTokens \ InvalidTokens
    /\ limit \in {NoLimit} \cup 0..MaxLimit
    /\ court_id \in CourtIds
    /\ \E n \in 1..MaxPages :
          /\ pages \in [1..n -> {Page(r, k) : r \in AscendingLists(DocketIds, MaxRefs),
                                              k \in 0..n}]
          /\ failPage \in 0..n
    /\ docket = [d \in DocketIds |->
                    DocketObject(d, List(IF d = 2 THEN <<ClusterUrl("1")>> ELSE <<>>))]
    /\ cluster = [c \in ClusterIds |->
                    PlainCluster(c, IF c = "1" THEN <<OpinionUrl("1")>> ELSE <<>>)]
    /\ opinion = [o \in OpinionIds |-> PlainOpinion(o)]
    /\ InitRun

\* configuration scenarios: any token, any cap; a listing of two pages and a
\* fixed plain tree; the API rejects every request that carries an invalid
\* token, the first page request to begin with
InitConfig ==
    /\ module \in Modules
    /\ api_token \in ApiTokens
    /\ limit \in {NoLimit} \cup 0..MaxLimit
    /\ court_id \in CourtIds
    /\ pages = <<Page(<<1, 2>>, 2), Page(<<2>>, 0)>>
    /\ failPage = IF api_token \in InvalidTokens THEN 1 ELSE 0
    /\ docket = [d \in DocketIds |->
                    DocketObject(d, List(IF d = 2 THEN <<ClusterUrl("1")>> ELSE <<>>))]
    /\ cluster = [c \in ClusterIds |->
                    PlainCluster(c, IF c = "1" THEN <<OpinionUrl("1")>> ELSE <<>>)]
    /\ opinion = [o \in OpinionIds |-> PlainOpinion(o)]
    /\ InitRun

Init == InitTree \/ InitPaging

-----------------------------------------------------------------------------
(* The log of outbound requests and sleeps. *)

GetEvent(kind, id, prm) == [ev |-> "GET", kind |-> kind, id |-> id, params |-> prm]
SleepEvent(kind) == [ev |-> "sleep", kind |-> kind, id |-> "", params |-> ""]

Requests(l, kind) == {i \in DOMAIN l : l[i].ev = "GET" /\ l[i].kind = kind}

\* the page index as the id of a page request
PageId(k) == IF k = 1 THEN "1" ELSE IF k = 2 THEN "2" ELSE IF k = 3 THEN "3" ELSE "4"

-----------------------------------------------------------------------------
(* get_dockets *)

\* the docket objects of page k
PageResultsFirst(k) == Take([i \in DOMAIN pages[k].results |-> docket[pages[k].results[i]]], 1)
PageResults(k) == [i \in DOMAIN pages[k].results |-> docket[pages[k].results[i]]]

\* session.get + raise_for_status raises a RequestException, which
\* get_dockets catches
NoPageFails(k) == FALSE
PageFails(k) == k = failPage

\* "if limit is not None and len(dockets) >= limit: break"
CapReachedLate(acc, lim) == lim # NoLimit /\ Len(acc) > lim
CapReached(acc, lim) == lim # NoLimit /\ Len(acc) >= lim

\* "params = {}" after a page was read: the cursor URL encodes the parameters
KeptParams(p) == p
ClearedParams(p) == ""

\* "time.sleep(1)" after a page was read (clean_data.py: 0.5)
NoPageSleep == <<>>
PageSleep == <<SleepEvent("page")>>

\* the loop "while url" runs inside the call "dockets = self.get_dockets(...)",
\* which scrape_cases makes once, before its docket loop
InAnyStage == pc \in {"get_dockets", "dockets_for", "clusters_for", "opinions_for"}
InDocketStage == pc = "get_dockets"

\* the return statement of get_dockets
ReturnAll(m, acc, lim) == acc
ReturnDockets(m, acc, lim) ==
    IF m = "data_collection"
    THEN IF lim = NoLimit THEN acc ELSE Take(acc, lim)
    ELSE IF lim # NoLimit /\ lim # 0 THEN Take(acc, lim) ELSE acc

\* scrape_cases starts: "cases_data = []"
InitialCasesKept(old) == old
InitialCases(old) == <<>>

\* scrape_cases is called: the output is empty and get_dockets starts with
\* the listing's first URL and the court filter
ScrapeCases ==
    /\ pc = "init"
    /\ pc' = "get_dockets"
    /\ cases_data' = InitialCases(cases_data)
    /\ origin' = InitialCases(origin)
    /\ url' = 1
    /\ params' = court_id
    /\ dockets' = <<>>
    /\ idx' = 0
    /\ UNCHANGED <<apiVars, cluster_urls, ci, cur_cluster, opinion_urls, oi, files,
                   log, run, prev_cases>>

\* one iteration of "while url": a page request; a failure ends the loop and
\* get_dockets returns what it has
GetDocketsPage ==
    /\ InDocketStage
    /\ url # 0
    /\ ~CapReached(dockets, limit)
    /\ Cardinality(Requests(log, "page")) < MaxPageRequests
    /\ IF PageFails(url)
       THEN /\ log' = Append(log, GetEvent("page", PageId(url), params))
            /\ dockets' = ReturnDockets(module, dockets, limit)
            /\ pc' = "dockets_for"
            /\ UNCHANGED <<url, params>>
       ELSE /\ log' = log \o <<GetEvent("page", PageId(url), params)>> \o PageSleep
            /\ dockets' = dockets \o PageResults(url)
            /\ url' = pages[url].next
            /\ params' = ClearedParams(params)
            /\ pc' = "get_dockets"
    /\ UNCHANGED <<apiVars, idx, cluster_urls, ci, cur_cluster, opinion_urls, oi,
                   cases_data, files, origin, run, prev_cases>>

\* one iteration of "while url" once the log holds MaxPageRequests page
\* requests: the same step, which the log no longer records.  With a cap the
\* accumulator stays bounded, so the loop can be followed for ever.
GetDocketsPageUnlogged ==
    /\ pc = "get_dockets"
    /\ url # 0
    /\ ~CapReached(dockets, limit)
    /\ limit # NoLimit
    /\ Cardinality(Requests(log, "page")) >= MaxPageRequests
    /\ IF PageFails(url)
       THEN /\ dockets' = ReturnDockets(module, dockets, limit)
            /\ pc' = "dockets_for"
            /\ UNCHANGED <<url, params>>
       ELSE /\ dockets' = dockets \o PageResults(url)
            /\ url' = pages[url].next
            /\ params' = ClearedParams(params)
            /\ pc' = "get_dockets"
    /\ UNCHANGED <<apiVars, idx, cluster_urls, ci, cur_cluster, opinion_urls, oi,
                   cases_data, files, origin, log, run, prev_cases>>

\* the loop ends (no next URL, or the cap is reached) and get_dockets returns
GetDocketsReturn ==
    /\ pc = "get_dockets"
    /\ url = 0 \/ CapReached(dockets, limit)
    /\ dockets' = ReturnDockets(module, dockets, limit)
    /\ pc' = "dockets_for"
    /\ UNCHANGED <<apiVars, url, params, idx, cluster_urls, ci, cur_cluster,
                   opinion_urls, oi, cases_data, files, origin, log, run, prev_cases>>

-----------------------------------------------------------------------------
(* get_cluster, get_opinion *)

\* the value get_cluster returns: http "error" models None
get_cluster(id) ==
    IF id \in DOMAIN cluster THEN cluster[id]
    ELSE ClusterResponse("error", id, Absent, Absent)

get_opinion(id) ==
    IF id \in DOMAIN opinion THEN opinion[id]
    ELSE OpinionResponse("error", id, Absent, Absent, Absent, Absent)

\* Python truthiness of a response: None and {} are falsy
Falsy(r) == r.http # "ok"

\* "if not cluster: continue"
AnyCluster(c) == FALSE
NoCluster(c) == Falsy(c)

\* "if not opinion: continue"
AnyOpinion(o) == FALSE
NoOpinion(o) == Falsy(o)

\* "continue", or the end of the loop body: the for loop takes the next
\* reference, whether the request of reference i gave a resource r or not
RetryRef(i, r) == IF Falsy(r) THEN i ELSE i + 1
NextRef(i, r) == i + 1

-----------------------------------------------------------------------------
(* The record of one opinion. *)

\* data_collection.py, "case_data = {...}"
AssembleFull(d, c, o) ==
    [docket_id |-> d.id,
     cluster_id |-> c.id,
     judges |-> Get(c.judges, Str(<<>>)),
     opinion_id |-> o.id,
     opinion_type |-> GetOrNone(o.type),
     author_str |-> Get(o.author_str, Str(<<>>)),
     opinion_text_plain |-> Get(o.plain_text, Str(<<>>)),
     opinions_cited_count |-> Len(Get(o.opinions_cited, List(<<>>)).s)]

\* clean_data.py, "cases.append({...})"; the text file is named after the
\* opinion id of the reference
AssembleIndex(d, c, o, opinion_id) ==
    [docket_id |-> d.id,
     judges |-> Get(c.judges, Str(<<>>)),
     text_file_path |-> <<"court_case_texts", "opinion_", opinion_id, ".txt">>]

\* the exception the assembly raises, if any: len(None) in data_collection.py,
\* None.strip() in clean_data.py
Raises(m, o) ==
    IF m = "data_collection"
    THEN Get(o.opinions_cited, List(<<>>)).tag = "null"
    ELSE Get(o.plain_text, Str(<<>>)).tag = "null"

\* clean_data.py: "if not raw_text.strip(): continue"
EmptyText(m, o) ==
    /\ m = "clean_data"
    /\ Len(Strip(Get(o.plain_text, Str(<<>>)).s)) = 0

\* "cases_data.append(case_data)"
EmitFirst(cases, rec) == <<rec>> \o cases
Emit(cases, rec) == Append(cases, rec)

-----------------------------------------------------------------------------
(* scrape_cases *)

\* the docket loop takes the next docket and reads its cluster references
NextDocket ==
    /\ pc = "dockets_for"
    /\ idx < Len(dockets)
    /\ idx' = idx + 1
    /\ LET cu == Get(dockets[idx + 1].clusters, List(<<>>))
       IN  /\ cluster_urls' = cu
           /\ ci' = 0
           /\ pc' = IF module = "data_collection"
                    THEN IF ~Truthy(cu) THEN "dockets_for" ELSE "clusters_for"
                    ELSE IF cu.tag = "null" THEN "crashed" ELSE "clusters_for"
    /\ UNCHANGED <<apiVars, url, params, dockets, cur_cluster, opinion_urls, oi,
                   cases_data, files, origin, log, run, prev_cases>>

\* the cluster loop takes the next reference and fetches the cluster
FetchCluster ==
    /\ pc = "clusters_for"
    /\ ci < Len(cluster_urls.s)
    /\ LET cluster_id == extract_id_from_url(cluster_urls.s[ci + 1])
           c == get_cluster(cluster_id)
           ou == Get(c.sub_opinions, List(<<>>))
       IN  /\ ci' = NextRef(ci, c)
           /\ log' = Append(log, GetEvent("cluster", cluster_id, ""))
           /\ IF NoCluster(c)
              THEN /\ pc' = "clusters_for"
                   /\ UNCHANGED <<cur_cluster, opinion_urls, oi>>
              ELSE /\ cur_cluster' = c
                   /\ opinion_urls' = ou
                   /\ oi' = 0
                   /\ pc' = IF ou.tag = "null" THEN "crashed" ELSE "opinions_for"
    /\ UNCHANGED <<apiVars, url, params, dockets, idx, cluster_urls, cases_data,
                   files, origin, run, prev_cases>>

\* the opinion loop takes the next reference, fetches the opinion and appends
\* its record
FetchOpinion ==
    /\ pc = "opinions_for"
    /\ oi < Len(opinion_urls.s)
    /\ oi' = NextRef(oi, get_opinion(extract_id_from_url(opinion_urls.s[oi + 1])))
    /\ LET opinion_id == extract_id_from_url(opinion_urls.s[oi + 1])
           o == get_opinion(opinion_id)
           got == Append(log, GetEvent("opinion", opinion_id, ""))
       IN  IF NoOpinion(o)
           THEN /\ log' = got
                /\ pc' = "opinions_for"
                /\ UNCHANGED <<cases_data, files, origin>>
           ELSE IF Raises(module, o)
           THEN /\ log' = got
                /\ pc' = "crashed"
                /\ UNCHANGED <<cases_data, files, origin>>
           ELSE IF EmptyText(module, o)
           THEN /\ log' = got
                /\ pc' = "opinions_for"
                /\ UNCHANGED <<cases_data, files, origin>>
           ELSE /\ cases_data' =
                      Emit(cases_data,
                           IF module = "data_collection"
                           THEN AssembleFull(dockets[idx], cur_cluster, o)
                           ELSE AssembleIndex(dockets[idx], cur_cluster, o, opinion_id))
                /\ origin' = Emit(origin, [docket |-> idx, cluster |-> cur_cluster.id,
                                           ref |-> opinion_id, opinion |-> o])
                /\ files' = IF module = "clean_data" THEN files \cup {opinion_id} ELSE files
                /\ log' = IF module = "clean_data"
                          THEN Append(got, SleepEvent("opinion"))
                          ELSE got
                /\ pc' = "opinions_for"
    /\ UNCHANGED <<apiVars, url, params, dockets, idx, cluster_urls, ci, cur_cluster,
                   opinion_urls, run, prev_cases>>

\* the opinion loop is exhausted; data_collection.py sleeps after each cluster
EndCluster ==
    /\ pc = "opinions_for"
    /\ oi = Len(opinion_urls.s)
    /\ pc' = "clusters_for"
    /\ log' = IF module = "data_collection" THEN Append(log, SleepEvent("cluster")) ELSE log
    /\ UNCHANGED <<apiVars, url, params, dockets, idx, cluster_urls, ci, cur_cluster,
                   opinion_urls, oi, cases_data, files, origin, run, prev_cases>>

\* the cluster loop is exhausted
EndDocket ==
    /\ pc = "clusters_for"
    /\ ci = Len(cluster_urls.s)
    /\ pc' = "dockets_for"
    /\ UNCHANGED <<apiVars, url, params, dockets, idx, cluster_urls, ci, cur_cluster,
                   opinion_urls, oi, cases_data, files, origin, log, run, prev_cases>>

\* the docket loop is exhausted: "return cases_data"
ReturnCases ==
    /\ pc = "dockets_for"
    /\ idx = Len(dockets)
    /\ pc' = "done"
    /\ UNCHANGED <<apiVars, url, params, dockets, idx, cluster_urls, ci, cur_cluster,
                   opinion_urls, oi, cases_data, files, origin, log, run, prev_cases>>

\* scrape_cases is called a second time on the same scraper, against the same
\* API; the files of the first run stay on disk
Rerun ==
    /\ pc \in {"done", "crashed"}
    /\ run = 1
    /\ run' = 2
    /\ prev_cases' = [pc |-> pc, cases |-> cases_data, log |-> log]
    /\ pc' = "init"
    /\ log' = <<>>
    /\ UNCHANGED <<apiVars, url, params, dockets, idx, cluster_urls, ci, cur_cluster,
                   opinion_urls, oi, cases_data, files, origin>>

\* the clusters whose request fails
FailedClusters == {c \in ClusterIds : cluster[c].http = "error"}

\* a reference list without the references to the clusters in S
Without(v, S) ==
    [v EXCEPT !.s = SelectSeq(v.s, LAMBDA u : extract_id_from_url(u) \notin S)]

\* scrape_cases is called a second time, against the API in which the clusters
\* whose request failed in the first run are absent: no docket refers to them
RerunAbsent ==
    /\ pc \in {"done", "crashed"}
    /\ run = 1
    /\ \E i \in Requests(log, "cluster") : log[i].id \in FailedClusters
    /\ run' = 2
    /\ prev_cases' = [pc |-> pc, cases |-> cases_data, log |-> log]
    /\ docket' = [d \in DocketIds |->
                    [docket[d] EXCEPT !.clusters = Without(docket[d].clusters, FailedClusters)]]
    /\ pc' = "init"
    /\ log' = <<>>
    /\ UNCHANGED <<module, api_token, limit, court_id, pages, failPage, cluster, opinion,
                   url, params,
                   dockets, idx, cluster_urls, ci, cur_cluster, opinion_urls, oi,
                   cases_data, files, origin>>

\* the run is interrupted between two requests (KeyboardInterrupt): the
\* exception leaves scrape_cases, nothing catches it and nothing is returned
Cancel ==
    /\ pc \in {"get_dockets", "dockets_for", "clusters_for", "opinions_for"}
    /\ pc' = "cancelled"
    /\ UNCHANGED <<apiVars, url, params, dockets, idx, cluster_urls, ci, cur_cluster,
                   opinion_urls, oi, cases_data, files, origin, log, run, prev_cases>>

\* what the caller of scrape_cases receives: the list of "return cases_data",
\* and nothing unless that statement is reached
Output == IF pc = "done" THEN List(cases_data) ELSE Absent

Next ==
    \/ ScrapeCases
    \/ GetDocketsPage
    \/ GetDocketsReturn
    \/ NextDocket
    \/ FetchCluster
    \/ FetchOpinion
    \/ EndCluster
    \/ EndDocket
    \/ ReturnCases

NextRerun == Next \/ Rerun

NextAbsent == Next \/ RerunAbsent

NextCancel == Next \/ Cancel

NextLive == Next \/ GetDocketsPageUnlogged

\* one run of scrape_cases, traversal and pagination scenarios
Spec == Init /\ [][Next]_vars

\* one run of scrape_cases, traversal scenarios
SpecTree == InitTree /\ [][Next]_vars

\* one run of scrape_cases, pagination scenarios
SpecPaging == InitPaging /\ [][Next]_vars

\* two runs of scrape_cases against the same API
SpecRerun == InitTree /\ [][NextRerun]_vars

\* a run with failing clusters, then the run without those clusters
SpecAbsent == InitTree /\ [][NextAbsent]_vars

\* one run of scrape_cases that may be interrupted, traversal scenarios
SpecCancel == InitTree /\ [][NextCancel]_vars

\* one run of scrape_cases that is never suspended for ever: the interpreter
\* runs the next statement as long as there is one; pagination scenarios
SpecLive == InitPaging /\ [][NextLive]_vars /\ WF_vars(NextLive)

\* one run of scrape_cases, configuration scenarios
SpecConfig == InitConfig /\ [][Next]_vars

-----------------------------------------------------------------------------
(* The docket listing as the API holds it. *)

\* the dockets of the pages from page k on, following the cursors, over at
\* most n pages; with stop, up to the page whose request fails
RECURSIVE Unfold(_, _, _)
Unfold(k, n, stop) ==
    IF k = 0 \/ n = 0 \/ (stop /\ k = failPage) THEN <<>>
    ELSE [i \in DOMAIN pages[k].results |-> docket[pages[k].results[i]]]
             \o Unfold(pages[k].next, n - 1, stop)

\* the listing, as far as one get_dockets call of the model can read it
Listing == Unfold(1, MaxPageRequests, FALSE)

\* the dockets of the pages before the page whose request fails
ServedListing == Unfold(1, MaxPageRequests, TRUE)

\* get_dockets has returned; "dockets" is what it returned
Returned == pc \notin {"init", "get_dockets"}

PageRequests == Requests(log, "page")

\* the request of some page has failed
FailedRequest == \E i \in PageRequests : failPage # 0 /\ log[i].id = PageId(failPage)

-----------------------------------------------------------------------------
(* C1 *)

-----------------------------------------------------------------------------
(* The records and the requests of a run. *)

\* the run has ended: scrape_cases has returned or has raised
Ended == pc \in {"done", "crashed"}

\* the ids requested from /opinions/, in request order
OpinionRequests(l) ==
    LET gets == SelectSeq(l, LAMBDA e : e.ev = "GET" /\ e.kind = "opinion")
    IN  [i \in DOMAIN gets |-> gets[i].id]

\* the opinion id a record carries: the opinion_id field in data_collection.py,
\* the name of the text file in clean_data.py
RecordOpinionId(m, rec) ==
    IF m = "data_collection" THEN rec.opinion_id ELSE rec.text_file_path[3]

\* some request of kind "cluster" or "opinion" got no resource
FailedFetch(kind) ==
    \E i \in Requests(log, kind) :
        IF kind = "cluster" THEN Falsy(get_cluster(log[i].id))
        ELSE Falsy(get_opinion(log[i].id))

-----------------------------------------------------------------------------
(* C2 *)

\* C2: in every state, each record of the output was built from a docket the
\* listing returned, a cluster that one of that docket's cluster references
\* names and whose request succeeded, and an opinion that one of that cluster's
\* sub_opinions references names and whose request succeeded; the record
\* carries their ids.  So a docket without cluster references has no record.
C2_RecordsFromFetchedNodes ==
    /\ Len(origin) = Len(cases_data)
    /\ \A i \in DOMAIN cases_data :
          LET og == origin[i]
              rec == cases_data[i]
          IN  /\ Returned
              /\ og.docket \in DOMAIN dockets
              /\ dockets[og.docket].id \in ListedDockets(pages)
              /\ dockets[og.docket] = docket[dockets[og.docket].id]
              /\ rec.docket_id = dockets[og.docket].id
              /\ dockets[og.docket].clusters.tag = "list"
              /\ og.cluster \in RefIds(dockets[og.docket].clusters)
              /\ og.cluster \in ClusterIds
              /\ cluster[og.cluster].http = "ok"
              /\ \E k \in Requests(log, "cluster") : log[k].id = og.cluster
              /\ cluster[og.cluster].sub_opinions.tag = "list"
              /\ og.ref \in RefIds(cluster[og.cluster].sub_opinions)
              /\ og.ref \in OpinionIds
              /\ opinion[og.ref].http = "ok"
              /\ og.opinion = opinion[og.ref]
              /\ \E k \in Requests(log, "opinion") : log[k].id = og.ref
              /\ RecordOpinionId(module, rec) = og.ref
              /\ module = "data_collection" => rec.cluster_id = og.cluster

\* a run ended with a record although an opinion request failed and a docket
\* of the listing has no cluster reference
C2_Witness ==
    /\ pc = "done"
    /\ Len(cases_data) >= 1
    /\ FailedFetch("opinion")
    /\ \E k \in DOMAIN dockets : ~Truthy(dockets[k].clusters)

-----------------------------------------------------------------------------
(* C3 *)

\* C3: the run in which a cluster's request fails and the run against the API
\* without that cluster end the same way, with the same opinion requests and
\* the same records; so the failed cluster causes no opinion request and no
\* record, and changes nothing for the other clusters and dockets.
C3_FailedClusterAsAbsent ==
    (run = 2 /\ Ended) =>
        /\ pc = prev_cases.pc
        /\ OpinionRequests(log) = OpinionRequests(prev_cases.log)
        /\ cases_data = prev_cases.cases

\* the failed cluster has opinion references, its request was made in the first
\* run, and both runs ended with a record of another cluster
C3_Witness ==
    /\ run = 2
    /\ pc = "done"
    /\ Len(cases_data) >= 1
    /\ \E i \in Requests(prev_cases.log, "cluster") :
          /\ prev_cases.log[i].id \in FailedClusters
          /\ Len(cluster[prev_cases.log[i].id].sub_opinions.s) >= 1

-----------------------------------------------------------------------------
(* C4 *)

\* C4 as stated: in both modules no record is built from an opinion whose
\* plain text is the empty string or whitespace only.
C4_NoRecordForEmptyText ==
    \A i \in DOMAIN cases_data :
        LET raw_text == Get(origin[i].opinion.plain_text, Str(<<>>))
        IN  raw_text.tag = "str" => Len(Strip(raw_text.s)) > 0

-----------------------------------------------------------------------------
(* C5 *)

\* C5 as stated: when the dockets of the listing are well-formed, scrape_cases
\* does not raise, whatever a cluster or opinion request returns.
C5_NeverAborts == FaultyDockets(docket) = {} => pc # "crashed"

-----------------------------------------------------------------------------
(* C6 *)

\* C6: once the request of a page has failed, get_dockets has returned without
\* raising, the failed request is the last page request, the dockets returned
\* are those of the pages before it, cut to the cap, and scrape_cases ends
\* having taken every one of them.
C6_FailedPageEndsListing ==
    FailedRequest =>
        /\ pc \notin {"get_dockets", "crashed"}
        /\ \A i, j \in PageRequests : log[i].id = PageId(failPage) => j <= i
        /\ dockets = IF limit = NoLimit THEN ServedListing ELSE Take(ServedListing, limit)
        /\ pc = "done" => idx = Len(dockets)

\* the second page request failed, and the run ended with the first page's dockets
C6_Witness ==
    /\ FailedRequest
    /\ Cardinality(PageRequests) >= 2
    /\ pc = "done"
    /\ Len(dockets) >= 1
    /\ idx = Len(dockets)

-----------------------------------------------------------------------------
(* C7 *)

\* C7 as stated: within one run no opinion id is requested from /opinions/
\* more than once.
C7_NoOpinionRequestedTwice ==
    \A i, j \in Requests(log, "opinion") : log[i].id = log[j].id => i = j

-----------------------------------------------------------------------------
(* C8 *)

\* C8 as stated: no two records of data_collection.py's output carry the same
\* opinion_id.
C8_UniqueOpinionId ==
    module = "data_collection" =>
        \A i, j \in DOMAIN cases_data :
            cases_data[i].opinion_id = cases_data[j].opinion_id => i = j

-----------------------------------------------------------------------------
(* C9 *)

\* C9: a second run of scrape_cases with the same arguments against the same
\* API ends as the first one did, with the same records in the same order.
C9_SameRecordsOnRerun ==
    (run = 2 /\ Ended) =>
        /\ pc = prev_cases.pc
        /\ cases_data = prev_cases.cases

\* both runs returned at least two records and met a request that failed
C9_Witness ==
    /\ run = 2
    /\ pc = "done"
    /\ Len(cases_data) >= 2
    /\ FailedFetch("cluster") \/ FailedFetch("opinion")

-----------------------------------------------------------------------------
(* C10 *)

\* C10 as stated: the record of an opinion that lacks author_str has the field
\* author_str, and its value is the empty string.
C10_AuthorDefaultsToEmpty ==
    \A i \in DOMAIN cases_data :
        origin[i].opinion.author_str.tag = "absent" =>
            /\ "author_str" \in DOMAIN cases_data[i]
            /\ cases_data[i].author_str = Str(<<>>)

-----------------------------------------------------------------------------
(* C11 *)

\* the fields of a record that hold a text taken from a resource
TextFields(m) ==
    IF m = "data_collection"
    THEN {"judges", "opinion_type", "author_str", "opinion_text_plain"}
    ELSE {"judges"}

\* C11 as stated: when the resources hold no null, only missing fields, every
\* text field of every record is a string, never null.
C11_NoNullField ==
    \A i \in DOMAIN cases_data :
        LET o == origin[i].opinion
        IN  (\A v \in {o.type, o.author_str, o.plain_text, o.opinions_cited} :
                 v.tag # "null")
                => \A f \in TextFields(module) : cases_data[i][f].tag = "str"

-----------------------------------------------------------------------------
(* C12 *)

\* C12 as stated: with a missing or invalid token no HTTP request is issued.
C12_NoRequestWithInvalidToken ==
    api_token \in InvalidTokens => \A i \in DOMAIN log : log[i].ev # "GET"

-----------------------------------------------------------------------------
(* C13 *)

\* the pages from page k on, following the cursors, over at most n pages
RECURSIVE Chain(_, _)
Chain(k, n) ==
    IF k = 0 \/ n = 0 THEN <<>> ELSE <<PageId(k)>> \o Chain(pages[k].next, n - 1)

\* the pages requested, in request order
PageRequestIds(l) ==
    LET gets == SelectSeq(l, LAMBDA e : e.ev = "GET" /\ e.kind = "page")
    IN  [i \in DOMAIN gets |-> gets[i].id]

\* C13: without a cap and without a failed request, when get_dockets has
\* returned it has requested the pages along the cursors, each once, until a
\* page has no next cursor, and has returned the pages' dockets concatenated in
\* page order.
C13_AllPagesInOrder ==
    (Returned /\ limit = NoLimit /\ ~FailedRequest) =>
        /\ url = 0
        /\ PageRequestIds(log) = Chain(1, MaxPageRequests)
        /\ dockets = Listing

\* two pages of 2 and 1 dockets gave 3 dockets
C13_Witness ==
    /\ Returned
    /\ limit = NoLimit
    /\ ~FailedRequest
    /\ PageRequestIds(log) = <<"1", "2">>
    /\ Len(pages[1].results) = 2
    /\ Len(pages[2].results) = 1
    /\ Len(dockets) = 3

-----------------------------------------------------------------------------
(* C14 *)

\* C14 as stated: a run interrupted after it has produced records yields those
\* records as its output.
C14_CancelledRunYieldsRecords ==
    (pc = "cancelled" /\ Len(cases_data) >= 1) => Output = List(cases_data)

-----------------------------------------------------------------------------
(* C15 *)

\* the cursors lead from the first page to a page without a next cursor
CursorEnds == Len(Chain(1, MaxPages + 1)) <= MaxPages

\* no page's cursor points to the page itself
NoSelfCursor == \A k \in DOMAIN pages : pages[k].next # k

\* C15 as stated, for the listings without a self cursor: when a cap is set or
\* the cursors end, get_dockets returns and scrape_cases reaches its end,
\* whatever the pages hold (empty results, a cursor to an earlier page).
C15_Terminates == (NoSelfCursor /\ (limit # NoLimit \/ CursorEnds)) ~> Ended

-----------------------------------------------------------------------------
(* C16 *)

\* C16: a step that issues a page request starts with fewer dockets than the
\* cap (so a cap of 0 issues none); a step that stays in the loop appends the
\* whole page, whatever the cap; the step that returns cuts the accumulated
\* dockets to the cap.
C16_CapCheckedBeforeRequest ==
    [][/\ Cardinality(Requests(log', "page")) > Cardinality(Requests(log, "page"))
           => (limit = NoLimit \/ Len(dockets) < limit)
       /\ limit = 0 => Requests(log', "page") = {}
       /\ (pc = "get_dockets" /\ pc' = "get_dockets")
           => dockets' = dockets \o [i \in DOMAIN pages[url].results |->
                                        docket[pages[url].results[i]]]
       /\ (pc = "get_dockets" /\ pc' # "get_dockets" /\ limit # NoLimit)
           => dockets' = Take(dockets, limit)]_vars

\* a fetched page has overshot the cap and get_dockets has not returned yet
C16_Witness ==
    /\ pc = "get_dockets"
    /\ limit = 1
    /\ Cardinality(PageRequests) = 1
    /\ Len(dockets) = 2

-----------------------------------------------------------------------------
(* C17 *)

\* C17: the first page request goes to the listing's first URL with the court
\* filter; every later page request goes to the cursor the page before it
\* returned, with empty query parameters.
C17_ParamsOnlyWithFirstRequest ==
    \A i \in PageRequests :
        IF \A j \in PageRequests : i <= j
        THEN /\ log[i].id = PageId(1)
             /\ log[i].params = court_id
        ELSE /\ log[i].params = ""
             /\ \E j \in PageRequests :
                   /\ j < i
                   /\ \A h \in PageRequests : h < i => h <= j
                   /\ \E k \in DOMAIN pages :
                         /\ log[j].id = PageId(k)
                         /\ pages[k].next # 0
                         /\ log[i].id = PageId(pages[k].next)

\* a second page was requested, at the cursor of the first one, without the
\* court filter that the first request carried
C17_Witness ==
    /\ Cardinality(PageRequests) >= 2
    /\ pages[1].next = 2
    /\ \E i, j \in PageRequests :
          /\ i < j
          /\ log[i].params = court_id
          /\ court_id # ""
          /\ log[j].id = PageId(2)
          /\ log[j].params = ""

-----------------------------------------------------------------------------
(* C18 *)

\* C18: between any two page requests there is a sleep, and no sleep comes
\* before the first page request.
C18_SleepBetweenPageRequests ==
    /\ \A i, j \in PageRequests :
          i < j => \E h \in DOMAIN log : i < h /\ h < j /\ log[h].ev = "sleep"
    /\ \A i \in PageRequests :
          (\A j \in PageRequests : i <= j)
              => \A h \in DOMAIN log : h < i => log[h].ev # "sleep"

\* two page requests with the sleep between them
C18_Witness ==
    /\ Len(log) >= 3
    /\ log[1].ev = "GET" /\ log[1].kind = "page"
    /\ log[2].ev = "sleep"
    /\ log[3].ev = "GET" /\ log[3].kind = "page"

-----------------------------------------------------------------------------
(* C19 *)

\* C19 as stated: between any two outbound GETs of a run (page, cluster or
\* opinion) there is a sleep.
C19_SleepBetweenRequests ==
    \A i, j \in DOMAIN log :
        (i < j /\ log[i].ev = "GET" /\ log[j].ev = "GET")
            => \E h \in DOMAIN log : i < h /\ h < j /\ log[h].ev = "sleep"

-----------------------------------------------------------------------------
(* C20 *)

\* the cluster and opinion requests of a log, in order, as <<kind, id>>
ResourceRequests(l) ==
    LET gets == SelectSeq(l, LAMBDA e : e.ev = "GET" /\ e.kind # "page")
    IN  [i \in DOMAIN gets |-> <<gets[i].kind, gets[i].id>>]

\* one request per opinion reference
OpinionVisits(refs) == [i \in DOMAIN refs |-> <<"opinion", extract_id_from_url(refs[i])>>]

\* one request per cluster reference, each followed by the visits of the
\* cluster's opinion references when the cluster was fetched
RECURSIVE ClusterVisits(_)
ClusterVisits(refs) ==
    IF Len(refs) = 0 THEN <<>>
    ELSE LET id == extract_id_from_url(Head(refs))
         IN  <<<<"cluster", id>>>>
                 \o (IF cluster[id].http = "ok"
                     THEN OpinionVisits(Get(cluster[id].sub_opinions, List(<<>>)).s)
                     ELSE <<>>)
                 \o ClusterVisits(Tail(refs))

\* the visits of the cluster references of the dockets ds, docket by docket
RECURSIVE DocketVisits(_)
DocketVisits(ds) ==
    IF Len(ds) = 0 THEN <<>>
    ELSE ClusterVisits(Get(Head(ds).clusters, List(<<>>)).s) \o DocketVisits(Tail(ds))

IsPrefix(s, t) == Len(s) <= Len(t) /\ s = SubSeq(t, 1, Len(s))

\* C20: the cluster and opinion requests of a run are, in order, one request
\* per occurrence of a reference, failed or not, of the dockets returned; a run
\* that returns has made them all; the page whose request failed was requested
\* once.
C20_OneRequestPerReference ==
    /\ Returned => IsPrefix(ResourceRequests(log), DocketVisits(dockets))
    /\ pc = "done" => ResourceRequests(log) = DocketVisits(dockets)
    /\ Cardinality({i \in PageRequests : failPage # 0 /\ log[i].id = PageId(failPage)}) <= 1

\* a run that returned after a cluster request failed and a sibling cluster
\* was requested next
C20_Witness ==
    /\ pc = "done"
    /\ \E i, j \in Requests(log, "cluster") :
          /\ j = i + 1
          /\ log[i].id \in FailedClusters
          /\ log[j].id \notin FailedClusters

-----------------------------------------------------------------------------
(* C21 *)

\* the docket id and the opinion id of each record, in output order
RecordKeys == [i \in DOMAIN cases_data |->
                  <<cases_data[i].docket_id, RecordOpinionId(module, cases_data[i])>>]

\* the opinion is fetched and passes the module's text test
Emitted(o) ==
    /\ opinion[o].http = "ok"
    /\ module = "clean_data" => Len(Strip(Get(opinion[o].plain_text, Str(<<>>)).s)) > 0

\* the keys of the records of the cluster references refs of docket d, in
\* listed order
RECURSIVE ClusterEmits(_, _)
ClusterEmits(d, refs) ==
    IF Len(refs) = 0 THEN <<>>
    ELSE LET id == extract_id_from_url(Head(refs))
             subs == IF cluster[id].http = "ok"
                     THEN Get(cluster[id].sub_opinions, List(<<>>)).s
                     ELSE <<>>
             ids == [i \in DOMAIN subs |-> extract_id_from_url(subs[i])]
             kept == SelectSeq(ids, Emitted)
         IN  [i \in DOMAIN kept |-> <<d.id, kept[i]>>] \o ClusterEmits(d, Tail(refs))

\* the keys of the records of the dockets ds, docket by docket
RECURSIVE DocketEmits(_)
DocketEmits(ds) ==
    IF Len(ds) = 0 THEN <<>>
    ELSE ClusterEmits(Head(ds), Get(Head(ds).clusters, List(<<>>)).s)
             \o DocketEmits(Tail(ds))

\* C21: the requests of a run follow the listed order (dockets in listing
\* order, each docket's cluster references in order, each fetched cluster's
\* opinion references in order), the records come out in that same order, and
\* every opinion request comes after the request of a fetched cluster that
\* lists the opinion, with no other cluster request between the two.
C21_ListedOrder ==
    Returned =>
        /\ IsPrefix(ResourceRequests(log), DocketVisits(dockets))
        /\ IsPrefix(RecordKeys, DocketEmits(dockets))
        /\ pc = "done" => RecordKeys = DocketEmits(dockets)
        /\ \A j \in Requests(log, "opinion") :
              \E i \in Requests(log, "cluster") :
                  /\ i < j
                  /\ \A h \in Requests(log, "cluster") : h < j => h <= i
                  /\ cluster[log[i].id].http = "ok"
                  /\ log[j].id \in RefIds(cluster[log[i].id].sub_opinions)

\* a run returned two records with different keys
C21_Witness ==
    /\ pc = "done"
    /\ Len(cases_data) >= 2
    /\ RecordKeys[1] # RecordKeys[2]

-----------------------------------------------------------------------------
(* C22 *)

\* C22: every page request precedes every cluster and opinion request; a
\* cluster or opinion request is issued only after get_dockets has returned;
\* from then on the dockets, cut to the cap, do not change and no page request
\* is issued.
C22_DocketStageFirst ==
    [][/\ \A i \in Requests(log', "page") :
             \A j \in DOMAIN log' :
                 (log'[j].ev = "GET" /\ log'[j].kind # "page") => i < j
       /\ Len(ResourceRequests(log')) > Len(ResourceRequests(log)) => Returned
       /\ Returned =>
             /\ dockets' = dockets
             /\ Requests(log', "page") = Requests(log, "page")
             /\ limit # NoLimit => Len(dockets) <= limit]_vars

\* a run that read two pages, then fetched a cluster, and returned a record
C22_Witness ==
    /\ pc = "done"
    /\ Cardinality(PageRequests) >= 2
    /\ Len(ResourceRequests(log)) >= 2
    /\ Len(cases_data) >= 1

====
